---- MODULE Spec2Model ----
(***************************************************************************)
(* Group reconciliation of google-workspace-sync: Google Workspace groups  *)
(* (source directory) are synced into the groups of the default            *)
(* organization of a Coder deployment (target system).                     *)
(*                                                                         *)
(* The repository holds the reconciliation twice: the gcsync package       *)
(* (Sync.SyncGroups and its helpers) and the standalone script (main of    *)
(* src/main.go).  The variable "variant" says which of the two runs.       *)
(*                                                                         *)
(* Strings that the code inspects (group names, emails) are sequences of   *)
(* one-character strings, so that lowercasing, space removal and suffix    *)
(* tests are computed and not assumed.                                     *)
(***************************************************************************)
EXTENDS Naturals, Sequences, FiniteSets, Bags, TLC

\* The number of runs of the job in one behaviour.
MaxRuns == 2

\* The number of adapter calls that fail in one behaviour.
MaxFaults == 1

\* The number of Groups.List calls that one call of GoogleGroups is followed
\* for.
MaxPages == 3

-----------------------------------------------------------------------------
(* Strings *)

ToSet(s) == { s[k] : k \in 1..Len(s) }

Contains(s, v) == \E k \in 1..Len(s) : s[k] = v

\* unicode.ToLower on the characters the model uses.
LowerChar(c) ==
    CASE c = "C" -> "c"
      [] c = "D" -> "d"
      [] c = "E" -> "e"
      [] c = "L" -> "l"
      [] OTHER -> c

\* A faulty ToLower, which keeps the case (C12 depends on the lowercasing).
ToLowerKeeps(s) == s

\* strings.ToLower
ToLower(s) == [k \in 1..Len(s) |-> LowerChar(s[k])]

\* strings.ReplaceAll(s, " ", "")
IsNotSpace(c) == c # " "

RemoveSpaces(s) == SelectSeq(s, IsNotSpace)

\* strings.HasSuffix
HasSuffix(s, suffix) ==
    /\ Len(s) >= Len(suffix)
    /\ SubSeq(s, Len(s) - Len(suffix) + 1, Len(s)) = suffix

-----------------------------------------------------------------------------
(* The deployment: organizations, users, groups and the directory *)

\* codersdk.LoginTypeOIDC
LoginTypeOIDC == "oidc"

\* Sync.EmailDomain / googleWorkspaceDomain
EmailDomain == <<"x">>

\* The label everyoneGroup starts from.
EveryoneLabel == <<"E", "v", "e", "r", "y", "o", "n", "e">>

\* Another name the all-members group of an organization may carry.
AllName == <<"a", "l", "l">>

\* Names of Google groups, as the directory returns them.
NoName == <<>>
Blank == <<" ">>
CatL == <<"C", " ", "L">>
catl == <<"c", "l">>
dogl == <<"d", "l">>
zz == <<"z", "z">>

\* uuids: the zero uuid, the organizations' IDs and the IDs of groups that
\* are no organization's all-members group.
NilID == <<"nil", <<>>>>
Org1 == <<"org", <<"1">>>>
Org2 == <<"org", <<"2">>>>
GroupCL == <<"group", <<"1">>>>
GroupZZ == <<"group", <<"2">>>>
GroupCL2 == <<"group", <<"3">>>>

\* The ID the target system gives the group that CreateGroup creates.
NewID(name) == <<"created", name>>

\* codersdk.Organization{} (the zero value)
ZeroOrganization == [ID |-> NilID, IsDefault |-> FALSE]

\* The users of the deployment: alice is an eligible identity, the second
\* user's login type and email vary.
Alice == [ID |-> "u1", Username |-> "alice", Email |-> <<"a", "@", "x">>,
          LoginType |-> LoginTypeOIDC]

BobKinds ==
    { [ID |-> "u2", Username |-> "bob", Email |-> <<"b", "@", "x">>, LoginType |-> LoginTypeOIDC],
      [ID |-> "u2", Username |-> "bob", Email |-> <<"b", "@", "x">>, LoginType |-> "password"],
      [ID |-> "u2", Username |-> "bob", Email |-> <<"b", "@", "y">>, LoginType |-> LoginTypeOIDC],
      [ID |-> "u2", Username |-> "bob", Email |-> <<"b", "x">>, LoginType |-> LoginTypeOIDC] }

\* What the directory may hold for alice: no group, a group named by a
\* space, a nameless group and one whose name is normalized, two groups of
\* one canonical name, the same name twice, two different groups.
AliceSources ==
    { <<>>, <<Blank>>, <<NoName, CatL>>, <<CatL, catl>>, <<dogl, dogl>>,
      <<CatL, dogl>> }

\* What the directory may hold for the second user; it is read only when
\* that user is eligible.
BobSources(bob) ==
    IF bob.LoginType = LoginTypeOIDC /\ bob.Email = <<"b", "@", "x">>
    THEN { <<catl>>, <<dogl>> }
    ELSE { <<dogl>> }

-----------------------------------------------------------------------------
(* Pure functions of the program *)

\* ExpectedCoderGroups: the canonical names of the Google groups that have a
\* name, in the directory's order.
RECURSIVE ExpectedCoderGroups(_)
ExpectedCoderGroups(groups) ==
    IF groups = <<>> THEN <<>>
    ELSE LET group == Head(groups)
             rest == ExpectedCoderGroups(Tail(groups))
         IN IF group = NoName THEN rest
            ELSE <<ToLower(RemoveSpaces(group))>> \o rest

\* A faulty Unique, which keeps every occurrence (C21 depends on the
\* duplicates being dropped before the difference is taken).
UniqueKeepsAll(a) == a

\* slice.Unique: the first occurrence of every element, in order.
RECURSIVE Unique(_)
Unique(a) ==
    IF a = <<>> THEN <<>>
    ELSE LET front == Unique(SubSeq(a, 1, Len(a) - 1))
             last == a[Len(a)]
         IN IF Contains(front, last) THEN front ELSE Append(front, last)

\* A faulty Difference, which filters nothing (C4 depends on the filter).
DifferenceKeepsAll(a, b) == a

\* slice.Difference: the elements of a that are not in b.
RECURSIVE Difference(_, _)
Difference(a, b) ==
    IF a = <<>> THEN <<>>
    ELSE IF Contains(b, Head(a)) THEN Difference(Tail(a), b)
         ELSE <<Head(a)>> \o Difference(Tail(a), b)

\* slice.SymmetricDifference(a, b): <<add, remove>>, what to add to and what
\* to remove from a to get b; duplicates are ignored.
SymmetricDifference(a, b) ==
    <<Difference(Unique(b), Unique(a)), Difference(Unique(a), Unique(b))>>

\* codersdk.PatchGroupRequest{}
EmptyRequest == [AddUsers |-> <<>>, RemoveUsers |-> <<>>]

\* A faulty AddUser, which replaces the add-list by the one user (C17 depends
\* on the lists being appended to).
AddUserReplaces(c, group, user) ==
    LET req == IF group \in DOMAIN c THEN c[group] ELSE EmptyRequest
    IN [g \in DOMAIN c \cup {group} |->
          IF g = group THEN [req EXCEPT !.AddUsers = <<user>>] ELSE c[g]]

\* ChangeGroupRequests.AddUser
AddUser(c, group, user) ==
    LET req == IF group \in DOMAIN c THEN c[group] ELSE EmptyRequest
    IN [g \in DOMAIN c \cup {group} |->
          IF g = group THEN [req EXCEPT !.AddUsers = Append(@, user)] ELSE c[g]]

\* ChangeGroupRequests.RemoveUser
RemoveUser(c, group, user) ==
    LET req == IF group \in DOMAIN c THEN c[group] ELSE EmptyRequest
    IN [g \in DOMAIN c \cup {group} |->
          IF g = group THEN [req EXCEPT !.RemoveUsers = Append(@, user)] ELSE c[g]]

\* for _, group := range add { coderGroupChanges.AddUser(group, user) }
RECURSIVE AddUserToAll(_, _, _)
AddUserToAll(c, add, user) ==
    IF add = <<>> THEN c
    ELSE AddUserToAll(AddUser(c, Head(add), user), Tail(add), user)

\* for _, group := range remove { coderGroupChanges.RemoveUser(group, user) }
RECURSIVE RemoveUserFromAll(_, _, _)
RemoveUserFromAll(c, remove, user) ==
    IF remove = <<>> THEN c
    ELSE RemoveUserFromAll(RemoveUser(c, Head(remove), user), Tail(remove), user)

\* A faulty test, which takes every key for missing (C15 depends on the
\* lookup in the group map).
IsMissingAlways(cGroupMap, group) == TRUE

\* if _, ok := coderGroups[group]; !ok
IsMissing(cGroupMap, group) == group \notin DOMAIN cGroupMap

\* A faulty creation, which leaves the new group out of the group map (C18
\* depends on the map being updated).
PutGroupNowhere(cGroupMap, group, newGroup) == cGroupMap

\* coderGroups[group] = newGroup
PutGroup(cGroupMap, group, newGroup) ==
    [g \in DOMAIN cGroupMap \cup {group} |->
        IF g = group THEN newGroup ELSE cGroupMap[g]]

\* A faulty delete, which keeps the entry (C7 depends on the delete).
DeleteKeyKeeps(c, group) == c

\* delete(changes, group)
DeleteKey(c, group) == [g \in DOMAIN c \ {group} |-> c[g]]

\* The loop over cGroups: the names of the groups, in order.
GroupNames(cGroups) == [k \in 1..Len(cGroups) |-> cGroups[k].Name]

\* A faulty everyoneGroup, which keeps the label whatever the groups are
\* (C10 depends on the name being taken from the user's groups).
EveryoneGroupIsLabel(cGroups, orgID) == EveryoneLabel

\* The loop over cGroups: the name of the group whose ID is the default
\* organization's ID (the last one, if several), else "Everyone".
RECURSIVE EveryoneGroup(_, _)
EveryoneGroup(cGroups, orgID) ==
    IF cGroups = <<>> THEN EveryoneLabel
    ELSE LET last == cGroups[Len(cGroups)]
         IN IF last.ID = orgID THEN last.Name
            ELSE EveryoneGroup(SubSeq(cGroups, 1, Len(cGroups) - 1), orgID)

\* A faulty eligibility test, which leaves out the "@" of the suffix (C9
\* depends on the whole test).
IsEligibleWithoutAt(user) ==
    /\ user.LoginType = LoginTypeOIDC
    /\ HasSuffix(user.Email, EmailDomain)

\* The eligibility test of the per-user loop.
IsEligible(user) ==
    /\ user.LoginType = LoginTypeOIDC
    /\ HasSuffix(user.Email, <<"@">> \o EmailDomain)

\* A faulty per-user diff, with the arguments of SymmetricDifference
\* exchanged (C3 depends on their order).
UserDiffExchanged(gGroups, cGroups, orgID) ==
    SymmetricDifference(Append(ExpectedCoderGroups(gGroups), EveryoneGroup(cGroups, orgID)),
                        GroupNames(cGroups))

\* The per-user diff: <<add, remove>> for the groups the user is in on the
\* directory (gGroups) and on the target (cGroups).
UserDiff(gGroups, cGroups, orgID) ==
    SymmetricDifference(GroupNames(cGroups),
                        Append(ExpectedCoderGroups(gGroups), EveryoneGroup(cGroups, orgID)))

\* The change set after the diff of one user is recorded.
RecordDiff(c, diff, user) ==
    RemoveUserFromAll(AddUserToAll(c, diff[1], user), diff[2], user)

-----------------------------------------------------------------------------
(* The target system (Coder) and the directory (Google Workspace) *)

VARIABLES
    variant,        \* "gcsync": Sync.SyncGroups; "script": main of src/main.go
    orgs,           \* target: the organizations, as Organizations returns them
    users,          \* target: the users, as Users returns them
    tgroups,        \* target: group ID -> [ID, OrganizationID, Name, Members]
    google,         \* directory: email -> names of the groups of that user
    run,            \* the number of the current run
    faults,         \* adapter calls that have failed so far
    pc,             \* where the run is
    defaultOrg,     \* local: the default organization
    coderGroups,    \* local: name -> group of the default organization
    userByID,       \* local: user ID -> user
    changes,        \* local: coderGroupChanges, name -> PatchGroupRequest
    oidcUserCount,  \* local: the eligible users seen
    i,              \* local: the index of the per-user loop
    gGroups,        \* local: the Google groups of the current user
    todo,           \* local: the keys a range over the change set has left
    createdGroups,  \* local: the groups created (their order is only logged)
    report,         \* the "No changes to make" line: [said, count]
    reads,          \* history: the per-user fetches of this run [op, user, ok]
    diffs,          \* history: user ID -> the lists the diff was taken of
    computed,       \* history: the change set when the per-user loop ended
    createCalls,    \* history: bag of the names CreateGroup was called with
    createFailed,   \* history: the names whose CreateGroup failed
    patchCalls,     \* history: bag of the PatchGroup calls [name, id, req, ok]
    prevApplied,    \* history: the previous run applied all it computed
    setupError,     \* history: the setup call whose error ended the run, or ""
    pages,          \* directory: page token -> the page Groups.List answers with
    listing,        \* GoogleGroups: where the call is
    pageToken,      \* GoogleGroups: local pageToken
    allGroups,      \* GoogleGroups: local allGroups
    listed,         \* GoogleGroups: the groups it returned
    requests,       \* history: the page tokens Groups.List was called with
    naming,         \* UserIDsToNames: where the call is
    lookup,         \* UserIDsToNames: argument lookup, uuid -> user
    idList,         \* UserIDsToNames: argument ids
    nameList        \* UserIDsToNames: the names it returned

vars == <<variant, orgs, users, tgroups, google, run, faults, pc, defaultOrg,
          coderGroups, userByID, changes, oidcUserCount, i, gGroups, todo,
          createdGroups, report, reads, diffs, computed, createCalls,
          createFailed, patchCalls, prevApplied, setupError, pages, listing,
          pageToken, allGroups, listed, requests, naming, lookup, idList, nameList>>

target == <<orgs, users, tgroups>>

\* A call of GoogleGroups and a call of UserIDsToNames, taken on their own.
pager == <<pages, listing, pageToken, allGroups, listed, requests>>
namer == <<naming, lookup, idList, nameList>>
calls == <<pager, namer>>

\* The run of the job.
sync == <<variant, orgs, users, tgroups, google, run, faults, pc, defaultOrg,
          coderGroups, userByID, changes, oidcUserCount, i, gGroups, todo,
          createdGroups, report, reads, diffs, computed, createCalls,
          createFailed, patchCalls, prevApplied, setupError>>
history == <<reads, diffs, computed, createCalls, createFailed, patchCalls,
             prevApplied>>

Group(id, org, name, members) ==
    [ID |-> id, OrganizationID |-> org, Name |-> name, Members |-> members]

\* A set as a sequence, in a fixed order.
RECURSIVE SeqOf(_)
SeqOf(S) ==
    IF S = {} THEN <<>>
    ELSE LET x == CHOOSE y \in S : TRUE IN <<x>> \o SeqOf(S \ {x})

\* CoderClient.Groups with Organization set: the groups of that organization.
GroupsOfOrganization(orgID) ==
    { tgroups[id] : id \in { d \in DOMAIN tgroups : tgroups[d].OrganizationID = orgID } }

\* CoderClient.Groups with HasMember set and no Organization: the groups, of
\* any organization, that the user is a member of.
GroupsOfMember(username) ==
    LET ids == { u.ID : u \in { v \in ToSet(users) : v.Username = username } }
    IN SeqOf({ tgroups[id] : id \in { d \in DOMAIN tgroups : tgroups[d].Members \cap ids # {} } })

\* Sync.coderGroups: the map from name to group built from the response.
GroupMap(resp) ==
    [name \in { g.Name : g \in resp } |-> CHOOSE g \in resp : g.Name = name]

\* Sync.defaultOrganization: the first organization marked default, if any.
RECURSIVE FirstDefault(_)
FirstDefault(os) ==
    IF os = <<>> THEN ZeroOrganization
    ELSE IF Head(os).IsDefault THEN Head(os) ELSE FirstDefault(Tail(os))

HasDefault(os) == \E k \in 1..Len(os) : os[k].IsDefault

\* CoderClient.PatchGroup on success: the members added, then removed.
Patched(group, req) ==
    [group EXCEPT !.Members = (@ \cup ToSet(req.AddUsers)) \ ToSet(req.RemoveUsers)]

\* The per-user loop over a list of users: the change set it builds from the
\* directory and the target as they are.
RECURSIVE ChangesFor(_)
ChangesFor(us) ==
    IF us = <<>> THEN <<>>
    ELSE LET c == ChangesFor(SubSeq(us, 1, Len(us) - 1))
             user == us[Len(us)]
         IN IF IsEligible(user)
            THEN RecordDiff(c, UserDiff(google[user.Email],
                                        GroupsOfMember(user.Username),
                                        defaultOrg.ID),
                            user.ID)
            ELSE c

-----------------------------------------------------------------------------
(* Initial states *)

Organizations == { <<[ID |-> Org2, IsDefault |-> FALSE], [ID |-> Org1, IsDefault |-> TRUE]>>,
                   <<[ID |-> Org2, IsDefault |-> FALSE], [ID |-> Org1, IsDefault |-> FALSE]>> }

\* Organizations of which two are marked default.
TwoDefaults == <<[ID |-> Org1, IsDefault |-> TRUE], [ID |-> Org2, IsDefault |-> TRUE]>>

\* The all-members group of the first organization: its ID is the
\* organization's ID.
EveryoneGroups ==
    { Group(Org1, Org1, EveryoneLabel, {"u1", "u2"}),
      Group(Org1, Org1, EveryoneLabel, {"u2"}),
      Group(Org1, Org1, AllName, {"u1", "u2"}),
      Group(Org1, Org1, AllName, {"u2"}) }

\* A group named "cl" of the first organization, or none.
CLGroups ==
    { <<>> } \cup
    { GroupCL :> Group(GroupCL, Org1, catl, members) :
        members \in {{}, {"u1"}, {"u1", "u2"}} }

\* The groups of the second organization: none, or two groups with alice in
\* them, one named like a group of the first organization.
ZZGroups ==
    { <<>>,
      (GroupZZ :> Group(GroupZZ, Org2, zz, {"u1"})) @@
          (GroupCL2 :> Group(GroupCL2, Org2, catl, {"u1"})) }

\* The directory's answers for the users of the deployment.
Directory(us, a, b) ==
    [email \in { us[k].Email : k \in 1..Len(us) } |->
        IF email = Alice.Email THEN a ELSE b]

\* The locals and the history of a run that has not begun.
RunNotBegun ==
    /\ run = 1
    /\ faults = 0
    /\ pc = "Organizations"
    /\ defaultOrg = ZeroOrganization
    /\ coderGroups = <<>>
    /\ userByID = <<>>
    /\ changes = <<>>
    /\ oidcUserCount = 0
    /\ i = 1
    /\ gGroups = <<>>
    /\ todo = {}
    /\ createdGroups = {}
    /\ report = [said |-> FALSE, count |-> 0]
    /\ reads = {}
    /\ diffs = <<>>
    /\ computed = [done |-> FALSE, changes |-> <<>>]
    /\ createCalls = EmptyBag
    /\ createFailed = {}
    /\ patchCalls = EmptyBag
    /\ prevApplied = FALSE
    /\ setupError = ""

\* No call of GoogleGroups is followed page by page.
NoListing ==
    /\ pages = <<>>
    /\ listing = "Idle"
    /\ pageToken = ""
    /\ allGroups = <<>>
    /\ listed = <<>>
    /\ requests = <<>>

\* No call of UserIDsToNames is followed.
NoNaming ==
    /\ naming = "Idle"
    /\ lookup = <<>>
    /\ idList = <<>>
    /\ nameList = <<>>

\* Every deployment with one or no default organization, and one deployment
\* with two of them.
Init ==
    /\ variant \in {"gcsync", "script"}
    /\ \/ /\ orgs \in Organizations
          /\ \E bob \in BobKinds : users = <<Alice, bob>>
          /\ \E e \in EveryoneGroups, cl \in CLGroups, z \in ZZGroups :
                tgroups = (Org1 :> e) @@ cl @@ z
          /\ \E a \in AliceSources, b \in BobSources(users[2]) :
                google = Directory(users, a, b)
       \/ /\ orgs = TwoDefaults
          /\ users = <<Alice, [ID |-> "u2", Username |-> "bob",
                               Email |-> <<"b", "@", "x">>, LoginType |-> "password"]>>
          /\ tgroups = (Org1 :> Group(Org1, Org1, EveryoneLabel, {"u1", "u2"}))
          /\ google = Directory(users, <<CatL, dogl>>, <<dogl>>)
    /\ RunNotBegun
    /\ NoListing
    /\ NoNaming

-----------------------------------------------------------------------------
(* The run, one adapter call or one loop iteration at a time *)

\* A faulty handling of a failed setup call, which goes on to the per-user
\* loop (C23 depends on the return / log.Fatalf).
FailGoesOn ==
    /\ faults < MaxFaults
    /\ faults' = faults + 1
    /\ pc' = "Loop"
    /\ setupError' = pc

\* A call of the setup fails: the error is returned (gcsync) or log.Fatalf
\* ends the process (script).
Fail ==
    /\ faults < MaxFaults
    /\ faults' = faults + 1
    /\ pc' = "Failed"
    /\ setupError' = pc

\* defaultOrganization / the organization lookup of main.
ListOrganizations ==
    /\ pc = "Organizations"
    /\ \/ /\ Fail
          /\ UNCHANGED defaultOrg
       \/ /\ HasDefault(orgs)
          /\ defaultOrg' = FirstDefault(orgs)
          /\ pc' = "Groups"
          /\ UNCHANGED <<faults, setupError>>
       \/ /\ ~HasDefault(orgs)
          /\ variant = "gcsync"
          /\ pc' = "Failed"
          /\ setupError' = pc
          /\ UNCHANGED <<defaultOrg, faults>>
       \/ /\ ~HasDefault(orgs)
          /\ variant = "script"
          /\ defaultOrg' = ZeroOrganization
          /\ pc' = "Groups"
          /\ UNCHANGED <<faults, setupError>>
    /\ UNCHANGED <<calls, variant, target, google, run, coderGroups, userByID, changes,
                   oidcUserCount, i, gGroups, todo, createdGroups, report, history>>

\* Sync.coderGroups / the group listing of main.
ListGroups ==
    /\ pc = "Groups"
    /\ \/ /\ Fail
          /\ UNCHANGED coderGroups
       \/ /\ coderGroups' = GroupMap(GroupsOfOrganization(defaultOrg.ID))
          /\ pc' = "Users"
          /\ UNCHANGED <<faults, setupError>>
    /\ UNCHANGED <<calls, variant, target, google, run, defaultOrg, userByID, changes,
                   oidcUserCount, i, gGroups, todo, createdGroups, report, history>>

\* CoderClient.Users
ListUsers ==
    /\ pc = "Users"
    /\ \/ Fail
       \/ /\ pc' = "Loop"
          /\ UNCHANGED <<faults, setupError>>
    /\ UNCHANGED <<calls, variant, target, google, run, defaultOrg, coderGroups, userByID,
                   changes, oidcUserCount, i, gGroups, todo, createdGroups, report,
                   history>>

\* A faulty loop, which ends after its first iteration (C5 depends on the
\* loop going through every user).
LoopDoneAfterFirst == i > 1

\* for _, user := range coderUsers.Users: no user is left.
LoopDone == i > Len(users)

\* A faulty handling of a failed per-user fetch, which logs the error and
\* goes on (C6 depends on log.Fatalf).
FetchFailedGoesOn ==
    /\ faults < MaxFaults
    /\ faults' = faults + 1
    /\ pc' = "UserGroups"
    /\ UNCHANGED gGroups

\* A per-user fetch (GoogleGroups, Groups of the user) fails: log.Fatalf.
FetchFailed ==
    /\ faults < MaxFaults
    /\ faults' = faults + 1
    /\ pc' = "Failed"
    /\ UNCHANGED gGroups

Read(op, user, ok) == [op |-> op, user |-> user.ID, ok |-> ok]

\* The head of one iteration of the per-user loop: the eligibility test and,
\* for an eligible user, GoogleGroups.
LoopUser ==
    /\ pc = "Loop"
    /\ ~LoopDone
    /\ LET user == users[i] IN
       /\ userByID' = (user.ID :> user) @@ userByID
       /\ \/ /\ ~IsEligible(user)
             /\ i' = i + 1
             /\ UNCHANGED <<pc, faults, oidcUserCount, gGroups, reads>>
          \/ /\ IsEligible(user)
             /\ oidcUserCount' = oidcUserCount + 1
             /\ \/ /\ FetchFailed
                   /\ reads' = reads \cup {Read("GoogleGroups", user, FALSE)}
                \/ /\ gGroups' = google[user.Email]
                   /\ reads' = reads \cup {Read("GoogleGroups", user, TRUE)}
                   /\ pc' = "UserGroups"
                   /\ UNCHANGED faults
             /\ UNCHANGED i
    /\ UNCHANGED <<calls, setupError, variant, target, google, run, defaultOrg, coderGroups, changes,
                   todo, createdGroups, report, diffs, computed, createCalls,
                   createFailed, patchCalls, prevApplied>>

\* The rest of the iteration: the user's groups on the target, the diff, and
\* its record in the change set.
DiffUser ==
    /\ pc = "UserGroups"
    /\ LET user == users[i]
           cGroups == GroupsOfMember(user.Username)
       IN
       \/ /\ FetchFailed
          /\ reads' = reads \cup {Read("Groups", user, FALSE)}
          /\ UNCHANGED <<changes, i, diffs>>
       \/ /\ reads' = reads \cup {Read("Groups", user, TRUE)}
          /\ changes' = RecordDiff(changes, UserDiff(gGroups, cGroups, defaultOrg.ID),
                                   user.ID)
          /\ diffs' = (user.ID :>
                         [actual |-> GroupNames(cGroups),
                          expected |-> Append(ExpectedCoderGroups(gGroups),
                                              EveryoneGroup(cGroups, defaultOrg.ID))])
                      @@ diffs
          /\ i' = i + 1
          /\ pc' = "Loop"
          /\ UNCHANGED <<faults, gGroups>>
    /\ UNCHANGED <<calls, setupError, variant, target, google, run, defaultOrg, coderGroups, userByID,
                   oidcUserCount, todo, createdGroups, report, computed,
                   createCalls, createFailed, patchCalls, prevApplied>>

\* "No changes to make, all %d OIDC users ..."
NoChanges == [said |-> TRUE, count |-> oidcUserCount]

\* The per-user loop has ended.
LoopEnd ==
    /\ pc = "Loop"
    /\ LoopDone
    /\ computed' = [done |-> TRUE, changes |-> changes]
    /\ \/ /\ variant = "gcsync"
          /\ DOMAIN changes = {}
          /\ report' = NoChanges
          /\ pc' = "Done"
          /\ UNCHANGED todo
       \/ /\ variant = "script" \/ DOMAIN changes # {}
          /\ todo' = DOMAIN changes
          /\ pc' = "Create"
          /\ UNCHANGED report
    /\ UNCHANGED <<calls, setupError, variant, target, google, run, faults, defaultOrg, coderGroups,
                   userByID, changes, oidcUserCount, i, gGroups, createdGroups,
                   reads, diffs, createCalls, createFailed, patchCalls, prevApplied>>

\* One iteration of the loop that creates the missing groups: a key of the
\* change set, in the map's (arbitrary) order.  CreateGroup fails when the
\* target refuses it, and always when the organization does not exist.
CreateMissingGroup ==
    /\ pc = "Create"
    /\ \E group \in todo :
         /\ todo' = todo \ {group}
         /\ \/ /\ ~IsMissing(coderGroups, group)
               /\ UNCHANGED <<tgroups, faults, coderGroups, changes, createdGroups,
                              createCalls, createFailed>>
            \/ /\ IsMissing(coderGroups, group)
               /\ createCalls' = createCalls (+) SetToBag({group})
               /\ \/ /\ \/ /\ faults < MaxFaults
                           /\ faults' = faults + 1
                        \/ /\ \A k \in 1..Len(orgs) : orgs[k].ID # defaultOrg.ID
                           /\ UNCHANGED faults
                     /\ changes' = DeleteKey(changes, group)
                     /\ createFailed' = createFailed \cup {group}
                     /\ UNCHANGED <<tgroups, coderGroups, createdGroups>>
                  \/ /\ \E k \in 1..Len(orgs) : orgs[k].ID = defaultOrg.ID
                     /\ LET newGroup == Group(NewID(group), defaultOrg.ID, group, {}) IN
                        /\ tgroups' = (newGroup.ID :> newGroup) @@ tgroups
                        /\ coderGroups' = PutGroup(coderGroups, group, newGroup)
                        /\ createdGroups' = createdGroups \cup {newGroup}
                     /\ UNCHANGED <<faults, changes, createFailed>>
    /\ UNCHANGED <<calls, setupError, variant, orgs, users, google, run, pc, defaultOrg, userByID,
                   oidcUserCount, i, gGroups, report, reads, diffs, computed,
                   patchCalls, prevApplied>>

\* The loop that creates the missing groups has ended.
CreateEnd ==
    /\ pc = "Create"
    /\ todo = {}
    /\ \/ /\ variant = "script"
          /\ DOMAIN changes = {}
          /\ report' = NoChanges
          /\ pc' = "Done"
          /\ UNCHANGED todo
       \/ /\ variant = "gcsync" \/ DOMAIN changes # {}
          /\ todo' = DOMAIN changes
          /\ pc' = "Apply"
          /\ UNCHANGED report
    /\ UNCHANGED <<calls, setupError, variant, target, google, run, faults, defaultOrg, coderGroups,
                   userByID, changes, oidcUserCount, i, gGroups, createdGroups,
                   history>>

\* A faulty handling of a failed PatchGroup, which logs the error and goes
\* on with the loop (C8 depends on the return / log.Fatalf).
PatchFailedGoesOn ==
    /\ faults < MaxFaults
    /\ faults' = faults + 1
    /\ pc' = pc

\* PatchGroup fails: the error is returned (gcsync) or log.Fatalf ends the
\* process (script).
PatchFailed ==
    /\ faults < MaxFaults
    /\ faults' = faults + 1
    /\ pc' = "Failed"

\* One iteration of applyGroupChanges / of the patch loop of main: a key of
\* the change set, in the map's (arbitrary) order.
ApplyGroupChange ==
    /\ pc = "Apply"
    /\ \E group \in todo :
         \/ /\ group \notin DOMAIN coderGroups
            /\ pc' = "Failed"
            /\ UNCHANGED <<tgroups, faults, todo, patchCalls>>
         \/ /\ group \in DOMAIN coderGroups
            /\ LET id == coderGroups[group].ID
                   req == changes[group]
                   call(ok) == [name |-> group, id |-> id, req |-> req, ok |-> ok]
               IN \/ /\ PatchFailed
                     /\ patchCalls' = patchCalls (+) SetToBag({call(FALSE)})
                     /\ UNCHANGED <<tgroups, todo>>
                  \/ /\ tgroups' = [tgroups EXCEPT ![id] = Patched(@, req)]
                     /\ patchCalls' = patchCalls (+) SetToBag({call(TRUE)})
                     /\ todo' = todo \ {group}
                     /\ UNCHANGED <<pc, faults>>
    /\ UNCHANGED <<calls, setupError, variant, orgs, users, google, run, defaultOrg, coderGroups,
                   userByID, changes, oidcUserCount, i, gGroups, createdGroups,
                   report, reads, diffs, computed, createCalls, createFailed,
                   prevApplied>>

\* A faulty patch loop, which may end before it has gone through every entry
\* (C16 depends on the loop ranging over the whole change set).
ApplyEndEarly ==
    /\ pc = "Apply"
    /\ pc' = "Done"
    /\ UNCHANGED <<calls, setupError, variant, target, google, run, faults, defaultOrg, coderGroups,
                   userByID, changes, oidcUserCount, i, gGroups, todo, createdGroups,
                   report, history>>

\* Every change has been applied.
ApplyEnd ==
    /\ pc = "Apply"
    /\ todo = {}
    /\ pc' = "Done"
    /\ UNCHANGED <<calls, setupError, variant, target, google, run, faults, defaultOrg, coderGroups,
                   userByID, changes, oidcUserCount, i, gGroups, todo, createdGroups,
                   report, history>>

\* The job is run again: nothing is kept from one run to the next but the
\* target system and the directory.
Restart ==
    /\ pc \in {"Done", "Failed"}
    /\ run < MaxRuns
    /\ run' = run + 1
    /\ prevApplied' = (pc = "Done" /\ createFailed = {})
    /\ pc' = "Organizations"
    /\ defaultOrg' = ZeroOrganization
    /\ coderGroups' = <<>>
    /\ userByID' = <<>>
    /\ changes' = <<>>
    /\ oidcUserCount' = 0
    /\ i' = 1
    /\ gGroups' = <<>>
    /\ todo' = {}
    /\ createdGroups' = {}
    /\ report' = [said |-> FALSE, count |-> 0]
    /\ reads' = {}
    /\ diffs' = <<>>
    /\ computed' = [done |-> FALSE, changes |-> <<>>]
    /\ createCalls' = EmptyBag
    /\ createFailed' = {}
    /\ patchCalls' = EmptyBag
    /\ setupError' = ""
    /\ UNCHANGED <<calls, variant, target, google, faults>>

Next ==
    \/ ListOrganizations
    \/ ListGroups
    \/ ListUsers
    \/ LoopUser
    \/ DiffUser
    \/ LoopEnd
    \/ CreateMissingGroup
    \/ CreateEnd
    \/ ApplyGroupChange
    \/ ApplyEnd
    \/ Restart

Spec == Init /\ [][Next]_vars

-----------------------------------------------------------------------------
(* GoogleGroups, one Groups.List call at a time *)

\* The page tokens: "" asks for the first page, and as NextPageToken it says
\* that no page is left.
Tokens == {"", "t1", "t2"}

\* The groups of one page.
PageGroups == { <<>>, <<CatL>>, <<dogl, catl>> }

\* What Groups.List answers with: an error, or a page and the next token.
Responses ==
    { [err |-> TRUE, Groups |-> <<>>, NextPageToken |-> ""] } \cup
    { [err |-> FALSE, Groups |-> g, NextPageToken |-> t] :
        g \in PageGroups, t \in Tokens }

\* A faulty accumulation, which keeps the last page only (C22 depends on the
\* append).
AccumulateLast(all, googleGroups) == googleGroups.Groups

\* allGroups = append(allGroups, googleGroups.Groups...)
Accumulate(all, googleGroups) == all \o googleGroups.Groups

\* GoogleGroups is called for alice, on a directory that answers every token;
\* no run of the job is under way.
PagesInit ==
    /\ variant = "gcsync"
    /\ orgs = <<>>
    /\ users = <<Alice>>
    /\ tgroups = <<>>
    /\ google = <<>>
    /\ RunNotBegun
    /\ NoNaming
    /\ pages \in [Tokens -> Responses]
    /\ listing = "Call"
    /\ pageToken = ""
    /\ allGroups = <<>>
    /\ listed = <<>>
    /\ requests = <<>>

\* Groups.List is called with pageToken.
ListCall ==
    /\ listing = "Call"
    /\ Len(requests) < MaxPages
    /\ requests' = Append(requests, pageToken)
    /\ UNCHANGED <<pages, sync, namer>>

\* The call fails: GoogleGroups returns nil and the error.
PageFails ==
    /\ ListCall
    /\ pages[pageToken].err
    /\ listing' = "Failed"
    /\ listed' = <<>>
    /\ UNCHANGED <<pageToken, allGroups>>

\* The call returns a page and the token of the next: the loop goes on.
PageMore ==
    /\ ListCall
    /\ ~pages[pageToken].err
    /\ pages[pageToken].NextPageToken # ""
    /\ allGroups' = Accumulate(allGroups, pages[pageToken])
    /\ pageToken' = pages[pageToken].NextPageToken
    /\ UNCHANGED <<listing, listed>>

\* The call returns a page and no token: GoogleGroups returns allGroups.
PageLast ==
    /\ ListCall
    /\ ~pages[pageToken].err
    /\ pages[pageToken].NextPageToken = ""
    /\ allGroups' = Accumulate(allGroups, pages[pageToken])
    /\ listing' = "Returned"
    /\ listed' = allGroups'
    /\ UNCHANGED pageToken

PagesNext ==
    \/ PageFails
    \/ PageMore
    \/ PageLast

\* The loop of GoogleGroups takes its next step as long as it has one.
PagesSpec == PagesInit /\ [][PagesNext]_vars /\ WF_vars(PagesNext)

-----------------------------------------------------------------------------
(* UserIDsToNames *)

\* The hexadecimal digits an identifier is written with, in either case.
HexDigits == {"0", "c", "d", "e", "C", "D", "E"}

\* The value of a hexadecimal digit.
HexValue(c) ==
    CASE c = "0" -> 0
      [] c \in {"c", "C"} -> 12
      [] c \in {"d", "D"} -> 13
      [] c \in {"e", "E"} -> 14

\* The digit String() writes for a value.
HexChar(v) ==
    CASE v = 0 -> "0"
      [] v = 12 -> "c"
      [] v = 13 -> "d"
      [] v = 14 -> "e"

\* uuid.Nil: a uuid is the values of its digits, here two of them.
NilUUID == <<0, 0>>

\* UUID.String
UUIDString(id) == [k \in 1..Len(id) |-> HexChar(id[k])]

\* The values of the digits of a text.
Decode(digits) == [k \in 1..Len(digits) |-> HexValue(digits[k])]

\* The digits of an identifier text: the text itself, or what its braces
\* enclose.
Digits(idStr) ==
    IF Len(idStr) = Len(NilUUID) + Len(<<"{", "}">>)
        THEN SubSeq(idStr, 2, Len(idStr) - 1)
        ELSE idStr

\* uuid.Parse: the text has the length of a uuid, with or without braces
\* around it, and only hexadecimal digits; a text that is no uuid gives the
\* zero uuid and an error.
ParseUUID(idStr) ==
    IF /\ Len(Digits(idStr)) = Len(NilUUID)
       /\ Len(idStr) > Len(NilUUID) =>
             idStr[1] = "{" /\ idStr[Len(idStr)] = "}"
       /\ ToSet(Digits(idStr)) \subseteq HexDigits
        THEN [id |-> Decode(Digits(idStr)), err |-> FALSE]
        ELSE [id |-> NilUUID, err |-> TRUE]

\* UserIDsToNames
RECURSIVE UserIDsToNames(_, _)
UserIDsToNames(lk, idStrs) ==
    IF idStrs = <<>> THEN <<>>
    ELSE LET idStr == Head(idStrs)
             id == ParseUUID(idStr).id
             err == ParseUUID(idStr).err
         IN (IF ~err /\ id \in DOMAIN lk
                THEN <<lk[id].Email>>
                ELSE <<UUIDString(id)>>)
            \o UserIDsToNames(lk, Tail(idStrs))

\* The identifier texts the function is called with: uuids in lower and in
\* upper case, in braces, the zero uuid, and texts that are no uuid.
IDTexts ==
    { <<"c", "d">>, <<"C", "D">>, <<"d", "e">>, <<"D", "e">>,
      <<"{", "c", "d", "}">>, <<"0", "0">>, zz, <<"c">>, <<>> }

\* The users a lookup may hold, by uuid.
AliceByUUID == <<12, 13>> :> [Alice EXCEPT !.ID = <<12, 13>>]

BobByUUID ==
    <<13, 14>> :> [ID |-> <<13, 14>>, Username |-> "bob",
                     Email |-> <<"b", "@", "x">>, LoginType |-> "password"]

NobodyByUUID ==
    NilUUID :> [ID |-> NilUUID, Username |-> "", Email |-> <<>>,
                LoginType |-> ""]

Lookups ==
    { <<>>, AliceByUUID, AliceByUUID @@ BobByUUID, AliceByUUID @@ NobodyByUUID }

\* The longest list of identifiers the function is called with.
MaxIDs == 2

\* UserIDsToNames is called with a lookup and a list of identifier texts; no
\* run of the job is under way and no listing either.
NamesInit ==
    /\ variant = "gcsync"
    /\ orgs = <<>>
    /\ users = <<Alice>>
    /\ tgroups = <<>>
    /\ google = <<>>
    /\ RunNotBegun
    /\ NoListing
    /\ naming = "Call"
    /\ lookup \in Lookups
    /\ idList \in UNION { [1..n -> IDTexts] : n \in 0..MaxIDs }
    /\ nameList = <<>>

\* The function runs and returns names.
NameIDs ==
    /\ naming = "Call"
    /\ naming' = "Returned"
    /\ nameList' = UserIDsToNames(lookup, idList)
    /\ UNCHANGED <<lookup, idList, sync, pager>>

NamesNext == NameIDs

NamesSpec == NamesInit /\ [][NamesNext]_vars

-----------------------------------------------------------------------------
(* What the claims speak of, stated on the target system and the directory *)

\* An eligible identity: OIDC login and an email that ends in "@" + domain.
Eligible(user) ==
    /\ user.LoginType = "oidc"
    /\ \E k \in 1..Len(user.Email) :
          /\ user.Email[k] = "@"
          /\ SubSeq(user.Email, k + 1, Len(user.Email)) = EmailDomain

EligibleUsers == { u \in ToSet(users) : Eligible(u) }

\* The canonical name of a source group name: lowercase, no space.
RECURSIVE Canonical(_)
Canonical(name) ==
    IF name = <<>> THEN <<>>
    ELSE (IF Head(name) = " " THEN <<>> ELSE <<LowerChar(Head(name))>>)
         \o Canonical(Tail(name))

\* The target groups an identity is a member of, and their names.
MemberGroups(user) == { tgroups[id] : id \in { d \in DOMAIN tgroups : user.ID \in tgroups[d].Members } }

Actual(user) == { g.Name : g \in MemberGroups(user) }

\* The same, counting the groups of the default organization only.
ActualInDefault(user) ==
    { g.Name : g \in { h \in MemberGroups(user) : h.OrganizationID = defaultOrg.ID } }

\* The all-members group name of an identity: the name of its target group
\* whose ID is the default organization's ID, or "Everyone".
EveryoneName(user) ==
    IF \E g \in MemberGroups(user) : g.ID = defaultOrg.ID
    THEN (CHOOSE g \in MemberGroups(user) : g.ID = defaultOrg.ID).Name
    ELSE EveryoneLabel

\* The Expected set of an identity.
Expected(user) ==
    { Canonical(n) : n \in { m \in ToSet(google[user.Email]) : m # <<>> } }
        \cup {EveryoneName(user)}

\* The identities a request list of the change set names, per group.
Adds(c, group) == IF group \in DOMAIN c THEN ToSet(c[group].AddUsers) ELSE {}
Removes(c, group) == IF group \in DOMAIN c THEN ToSet(c[group].RemoveUsers) ELSE {}

\* The run ended without an error and every CreateGroup of it succeeded.
RunSucceeded == pc = "Done" /\ createFailed = {}

-----------------------------------------------------------------------------
(* Claims *)

\* No CreateGroup and no PatchGroup has been called in this run: the target
\* system is as the run found it.
NoMutationYet == BagToSet(createCalls) = {} /\ BagToSet(patchCalls) = {}

UserIndex(id) == CHOOSE k \in 1..Len(users) : users[k].ID = id

\* C1 (as claimed): after a run in which every group creation and every
\* membership patch succeeded, every eligible identity is a member of exactly
\* the target groups named by its Expected set: its groups of all
\* organizations, or at least its groups of the default organization.
C1_Convergence ==
    RunSucceeded =>
        \A u \in EligibleUsers :
            Actual(u) = Expected(u) \/ ActualInDefault(u) = Expected(u)

\* C1 holds of the deployments where no group belongs to another organization.
C1_DefaultOrgOnly ==
    (RunSucceeded /\ \A id \in DOMAIN tgroups : tgroups[id].OrganizationID = Org1) =>
        \A u \in EligibleUsers : Actual(u) = Expected(u)

\* C2 (as claimed): when the previous run applied all it computed, the change
\* set the next run computes is empty.
C2_Idempotence ==
    (run > 1 /\ prevApplied /\ computed.done) => DOMAIN computed.changes = {}

\* C2 holds of the deployments where no group belongs to another organization.
C2_DefaultOrgOnly ==
    (/\ run > 1 /\ prevApplied /\ computed.done
     /\ \A id \in DOMAIN tgroups : tgroups[id].OrganizationID = Org1)
        => DOMAIN computed.changes = {}

\* C3: while the target is as the run found it, the change set holds, for
\* every eligible identity whose diff is taken, an addition for exactly the
\* groups of Expected minus Actual and a removal for exactly the groups of
\* Actual minus Expected; the lists the diff is taken of are Expected and
\* Actual.
C3_DiffIsSetDifference ==
    NoMutationYet =>
        \A u \in EligibleUsers :
            u.ID \in DOMAIN diffs =>
                /\ ToSet(diffs[u.ID].expected) = Expected(u)
                /\ ToSet(diffs[u.ID].actual) = Actual(u)
                /\ \A g \in DOMAIN changes \cup Expected(u) \cup Actual(u) :
                      /\ u.ID \in Adds(changes, g) <=> g \in Expected(u) \ Actual(u)
                      /\ u.ID \in Removes(changes, g) <=> g \in Actual(u) \ Expected(u)

\* C3's case: the loop has ended and an identity has a group to keep, a group
\* to be added to and a group to be removed from.
C3_Witness ==
    /\ pc = "Loop"
    /\ i > Len(users)
    /\ \E u \in EligibleUsers :
          /\ \E g \in Expected(u) \cap Actual(u) : g # EveryoneName(u)
          /\ \E g \in Expected(u) \ Actual(u) : u.ID \in Adds(changes, g)
          /\ \E g \in Actual(u) \ Expected(u) : u.ID \in Removes(changes, g)

\* C4: in every state, no identity is in both the add-list and the
\* remove-list of a group of the change set.
C4_NeverAddAndRemove ==
    \A g \in DOMAIN changes : Adds(changes, g) \cap Removes(changes, g) = {}

\* C4's case: a group with an identity to add and another to remove.
C4_Witness ==
    \E g \in DOMAIN changes : Adds(changes, g) # {} /\ Removes(changes, g) # {}

\* C5: when a CreateGroup or a PatchGroup has been called, the per-user loop
\* has gone through the whole user list: both fetches were made, and the diff
\* taken, for every eligible identity.
C5_ReadsBeforeWrites ==
    ~NoMutationYet =>
        /\ computed.done
        /\ i > Len(users)
        /\ pc \in {"Create", "Apply", "Done", "Failed"}
        /\ \A u \in EligibleUsers :
              /\ u.ID \in DOMAIN diffs
              /\ [op |-> "GoogleGroups", user |-> u.ID, ok |-> TRUE] \in reads
              /\ [op |-> "Groups", user |-> u.ID, ok |-> TRUE] \in reads

\* C5's case: groups were created and patched in a run over two eligible
\* identities.
C5_Witness ==
    /\ BagToSet(createCalls) # {}
    /\ BagToSet(patchCalls) # {}
    /\ Cardinality(EligibleUsers) = 2

\* C6: when a per-user fetch has failed, the run has failed at that identity:
\* its diff is not taken, no later identity is fetched, the loop has not
\* ended, and no CreateGroup and no PatchGroup is called.
C6_FetchFailureIsFatal ==
    \A r \in reads :
        ~r.ok =>
            /\ pc = "Failed"
            /\ ~computed.done
            /\ NoMutationYet
            /\ i = UserIndex(r.user)
            /\ r.user \notin DOMAIN diffs
            /\ \A q \in reads : UserIndex(q.user) <= UserIndex(r.user)
            /\ \A id \in DOMAIN diffs : UserIndex(id) < UserIndex(r.user)

\* C6's case: the fetch of the second identity fails when the change set
\* already holds the diff of the first.
C6_Witness ==
    /\ \E r \in reads : ~r.ok /\ UserIndex(r.user) = 2
    /\ DOMAIN changes # {}

\* C7: a group whose creation failed was a key of the change set and is none
\* any more, CreateGroup was called once for it and PatchGroup never; the
\* failure does not end the run (a run that fails after it fails by a patch),
\* and when the run ends every other entry has had its one patch.
C7_CreateFailureIsolated ==
    /\ \A x \in createFailed :
          /\ x \in DOMAIN computed.changes
          /\ x \notin DOMAIN changes
          /\ CopiesIn(x, createCalls) = 1
          /\ \A call \in BagToSet(patchCalls) : call.name # x
    /\ (createFailed # {} /\ pc = "Failed") =>
          \E call \in BagToSet(patchCalls) : ~call.ok
    /\ (createFailed # {} /\ pc = "Done") =>
          \A y \in DOMAIN computed.changes \ createFailed :
              \E call \in BagToSet(patchCalls) :
                  /\ call.name = y
                  /\ call.ok
                  /\ call.req = computed.changes[y]
                  /\ CopiesIn(call, patchCalls) = 1

\* C7's case: a run that ended after a creation failed, another group was
\* created and patched, and a group that existed was patched.
C7_Witness ==
    /\ pc = "Done"
    /\ createFailed # {}
    /\ \E g \in createdGroups :
          \E call \in BagToSet(patchCalls) : call.ok /\ call.name = g.Name
    /\ \E call \in BagToSet(patchCalls) :
          call.ok /\ call.name \notin { g.Name : g \in createdGroups }

\* C8: when a PatchGroup has failed, the run has failed; that patch was called
\* once and is the only one that failed, no entry left over has been patched,
\* and the patches and creations that succeeded are in place.
C8_PatchFailureAborts ==
    \A call \in BagToSet(patchCalls) :
        ~call.ok =>
            /\ pc = "Failed"
            /\ CopiesIn(call, patchCalls) = 1
            /\ call.name \in todo
            /\ \A other \in BagToSet(patchCalls) :
                  /\ other.name \in todo => other = call
                  /\ other.ok =>
                        /\ CopiesIn(other, patchCalls) = 1
                        /\ ToSet(other.req.AddUsers) \subseteq tgroups[other.id].Members
                        /\ ToSet(other.req.RemoveUsers) \cap tgroups[other.id].Members = {}
            /\ \A g \in createdGroups : g.ID \in DOMAIN tgroups

\* C8's case: a patch fails after another succeeded and a group was created,
\* with an entry still left over.
C8_Witness ==
    /\ \E call \in BagToSet(patchCalls) : ~call.ok
    /\ \E call \in BagToSet(patchCalls) : call.ok
    /\ createdGroups # {}
    /\ Cardinality(todo) >= 2

\* C9: an identity that is not eligible is in no list of the change set and
\* of no patch, no per-user fetch is made for it, and the count of eligible
\* users counts the eligible identities the loop has reached, and them only.
C9_IneligibleUntouched ==
    /\ \A u \in ToSet(users) \ EligibleUsers :
          /\ \A g \in DOMAIN changes :
                u.ID \notin Adds(changes, g) \cup Removes(changes, g)
          /\ \A g \in DOMAIN computed.changes :
                u.ID \notin Adds(computed.changes, g) \cup Removes(computed.changes, g)
          /\ \A call \in BagToSet(patchCalls) :
                u.ID \notin ToSet(call.req.AddUsers) \cup ToSet(call.req.RemoveUsers)
          /\ \A r \in reads : r.user # u.ID
    /\ oidcUserCount =
          Cardinality({ u \in EligibleUsers :
                          \E r \in reads : r.op = "GoogleGroups" /\ r.user = u.ID })
    /\ report.said => report.count = Cardinality(EligibleUsers)

\* C9's case: the run has ended with changes, and an identity that is not
\* eligible is in other groups than the directory says.
C9_Witness ==
    /\ pc = "Done"
    /\ DOMAIN computed.changes # {}
    /\ \E u \in ToSet(users) \ EligibleUsers :
          /\ u.LoginType = "oidc"
          /\ Actual(u) # Expected(u)

\* C10: for every eligible identity whose diff is taken, the all-members group
\* name is in the expected list, and no removal from the group of that name is
\* recorded for it or sent in a patch.
C10_EveryoneExpected ==
    \A u \in EligibleUsers :
        u.ID \in DOMAIN diffs =>
            /\ Contains(diffs[u.ID].expected, EveryoneName(u))
            /\ u.ID \notin Removes(changes, EveryoneName(u))
            /\ u.ID \notin Removes(computed.changes, EveryoneName(u))
            /\ \A call \in BagToSet(patchCalls) :
                  call.name = EveryoneName(u) => ~Contains(call.req.RemoveUsers, u.ID)

\* C10's case: an identity in an all-members group that is not named
\* "Everyone", with no group on the directory and a removal recorded.
C10_Witness ==
    /\ computed.done
    /\ \E u \in EligibleUsers :
          /\ EveryoneName(u) = AllName
          /\ google[u.Email] = <<>>
          /\ \E g \in DOMAIN computed.changes : u.ID \in Removes(computed.changes, g)

\* C11 (as claimed): every name that ExpectedCoderGroups puts in an expected
\* list, and every key of the change set, is a non-empty string.
C11_CanonicalNamesNonEmpty ==
    /\ \A id \in DOMAIN diffs :
          \A k \in 1..Len(diffs[id].expected) : diffs[id].expected[k] # <<>>
    /\ \A g \in DOMAIN changes : g # <<>>
    /\ \A g \in BagToSet(createCalls) : g # <<>>

\* C11 holds of the directories where no group is named by spaces only.
C11_NoBlankNames ==
    (\A email \in DOMAIN google : ~Contains(google[email], Blank))
        => C11_CanonicalNamesNonEmpty

\* The letters that have a lowercase form.
UpperCase == {"C", "D", "E", "L"}

\* The canonical names of the named groups of a directory answer, in order.
RECURSIVE CanonicalNames(_)
CanonicalNames(names) ==
    IF names = <<>> THEN <<>>
    ELSE (IF Head(names) = <<>> THEN <<>> ELSE <<Canonical(Head(names))>>)
         \o CanonicalNames(Tail(names))

\* C12: for every eligible identity whose diff is taken, the names that
\* ExpectedCoderGroups emitted are, in order, the names of the identity's
\* named source groups in lowercase and without spaces ("C L" gives "cl"); a
\* nameless group gives no name and does not stop the run; an emitted name
\* holds no space and no uppercase letter, and is emitted unchanged when it is
\* normalized again.
C12_Normalization ==
    \A u \in EligibleUsers :
        u.ID \in DOMAIN diffs =>
            LET expected == diffs[u.ID].expected
                emitted == SubSeq(expected, 1, Len(expected) - 1)
            IN /\ emitted = CanonicalNames(google[u.Email])
               /\ Len(emitted) =
                     Cardinality({ k \in 1..Len(google[u.Email]) : google[u.Email][k] # <<>> })
               /\ Contains(google[u.Email], CatL) => Contains(emitted, catl)
               /\ \A k \in 1..Len(emitted) :
                     /\ ToSet(emitted[k]) \cap (UpperCase \cup {" "}) = {}
                     /\ emitted[k] # <<>> =>
                           ExpectedCoderGroups(<<emitted[k]>>) = <<emitted[k]>>

\* C12's case: a run has ended for an identity with a nameless source group
\* and one named "C L".
C12_Witness ==
    /\ pc = "Done"
    /\ Alice.ID \in DOMAIN diffs
    /\ Contains(google[Alice.Email], NoName)
    /\ Contains(google[Alice.Email], CatL)
    /\ Contains(diffs[Alice.ID].expected, catl)

\* The number of organizations marked default.
DefaultCount(os) == Cardinality({ k \in 1..Len(os) : os[k].IsDefault })

\* The run has failed on its organizations: no group and no user was listed,
\* no diff taken and nothing changed.
FailedFast ==
    /\ pc \in {"Organizations", "Failed"}
    /\ DOMAIN coderGroups = {}
    /\ DOMAIN userByID = {}
    /\ reads = {}
    /\ DOMAIN diffs = {}
    /\ ~computed.done
    /\ NoMutationYet

\* C13 (as claimed): when the organizations of the target do not hold exactly
\* one organization marked default, the run fails before it lists groups or
\* users, takes a diff or changes anything.
C13_DefaultScope == DefaultCount(orgs) # 1 => FailedFast

\* C13 holds of the gcsync package when no organization is marked default.
C13_PackageNoDefault ==
    (variant = "gcsync" /\ DefaultCount(orgs) = 0) => FailedFast

\* C14 (as claimed): the "No changes" line is written if and only if the
\* change set was empty when the per-user loop ended; the run that writes it
\* has created no group and sent no patch, and the count it reports is the
\* number of eligible identities.
C14_NoChangesReport ==
    /\ report.said =>
          /\ computed.done
          /\ DOMAIN computed.changes = {}
          /\ createdGroups = {}
          /\ BagToSet(patchCalls) = {}
          /\ report.count = Cardinality(EligibleUsers)
    /\ (computed.done /\ DOMAIN computed.changes = {}) =>
          /\ pc \in {"Create", "Done"}
          /\ pc = "Done" => report.said

\* C14 holds of the gcsync package.
C14_Package == variant = "gcsync" => C14_NoChangesReport

\* The names of the groups of the default organization as the run found
\* them: the target-group snapshot.
SnapshotNames ==
    { tgroups[id].Name :
        id \in { d \in DOMAIN tgroups :
                   /\ tgroups[d].OrganizationID = defaultOrg.ID
                   /\ d \notin { g.ID : g \in createdGroups } } }

\* The creation loop of this run has ended.
CreateLoopEnded == computed.done /\ pc # "Create"

\* C15: CreateGroup is called at most once for a name, and only for a key of
\* the change set that is not in the target-group snapshot; when the creation
\* loop has ended it has been called once for every such key (and, in the
\* loop, for every such key the loop has passed).
C15_CreateCalls ==
    /\ \A g \in BagToSet(createCalls) :
          /\ g \in DOMAIN computed.changes
          /\ g \notin SnapshotNames
          /\ CopiesIn(g, createCalls) = 1
    /\ computed.done =>
          \A g \in DOMAIN computed.changes \ SnapshotNames :
              /\ CreateLoopEnded => CopiesIn(g, createCalls) = 1
              /\ pc = "Create" => (CopiesIn(g, createCalls) = 1 <=> g \notin todo)

\* C15's case: the creation loop has ended for a change set with a key of the
\* snapshot, a key whose group was created and a key whose creation failed.
C15_Witness ==
    /\ CreateLoopEnded
    /\ DOMAIN computed.changes \cap SnapshotNames # {}
    /\ createdGroups # {}
    /\ createFailed # {}

\* The PatchGroup calls of this run for a group name.
PatchesOf(g) == { call \in BagToSet(patchCalls) : call.name = g }

\* The entries that remain after the creation loop: the keys of the change
\* set the per-user loop built, less those whose creation failed.
Remaining == DOMAIN computed.changes \ createFailed

\* C16: in a run where no patch fails, every PatchGroup call is the only call
\* for its group, the group is an entry that remains after the creation loop,
\* and the call carries the entry's whole add-list and remove-list as the
\* per-user loop built them; when the run has ended, every remaining entry
\* has had its call, and every entry of the change set was applied or dropped
\* by a failed creation.
C16_OnePatchPerEntry ==
    (\A call \in BagToSet(patchCalls) : call.ok) =>
        /\ \A call \in BagToSet(patchCalls) :
              /\ call.name \in Remaining
              /\ call.req = computed.changes[call.name]
              /\ call.id = coderGroups[call.name].ID
              /\ CopiesIn(call, patchCalls) = 1
              /\ PatchesOf(call.name) = {call}
        /\ (pc = "Done" /\ computed.done) =>
              /\ \A g \in Remaining : PatchesOf(g) # {}
              /\ createFailed \subseteq DOMAIN computed.changes
              /\ \A g \in DOMAIN computed.changes :
                    PatchesOf(g) # {} <=> g \notin createFailed

\* C16's case: a run has ended after a creation failed and two groups were
\* patched, one of them with an identity to add and another to remove.
C16_Witness ==
    /\ pc = "Done"
    /\ createFailed # {}
    /\ Cardinality({ call.name : call \in BagToSet(patchCalls) }) >= 2
    /\ \E call \in BagToSet(patchCalls) :
          call.req.AddUsers # <<>> /\ call.req.RemoveUsers # <<>>

\* The orders in which a list of users can be processed.
Orders(us) ==
    { p \in [1..Len(us) -> ToSet(us)] :
        \A u \in ToSet(us) :
            Cardinality({ k \in 1..Len(us) : p[k] = u }) =
            Cardinality({ k \in 1..Len(us) : us[k] = u }) }

\* A change set, each list viewed as a set of identities.
AsSets(c) ==
    [g \in DOMAIN c |->
        [add |-> ToSet(c[g].AddUsers), remove |-> ToSet(c[g].RemoveUsers)]]

\* C17: while the target is as the run found it, the change set of the ended
\* per-user loop, each list viewed as a set, is the change set the loop
\* builds for every order of the users.
C17_OrderIndependent ==
    (computed.done /\ NoMutationYet) =>
        \A p \in Orders(users) : AsSets(ChangesFor(p)) = AsSets(computed.changes)

\* C17's case: the loop has ended for two eligible identities, and in another
\* order it builds a list in another order.
C17_Witness ==
    /\ computed.done
    /\ NoMutationYet
    /\ Cardinality(EligibleUsers) = 2
    /\ \E p \in Orders(users) : ChangesFor(p) # computed.changes

\* C18: when the creation loop has ended, every key that is still in the
\* change set is a key of the group map, and its group was in the snapshot or
\* has just been created; a run that fails after the per-user loop fails by a
\* PatchGroup call, never by a group that is not found.
C18_KeysResolve ==
    /\ CreateLoopEnded =>
          /\ DOMAIN changes \subseteq DOMAIN coderGroups
          /\ \A g \in DOMAIN changes :
                g \in SnapshotNames \cup { c.Name : c \in createdGroups }
    /\ (computed.done /\ pc = "Failed") =>
          \E call \in BagToSet(patchCalls) : ~call.ok

\* C18's case: a run has ended in which a creation failed, another group was
\* created and a group of the snapshot was patched.
C18_Witness ==
    /\ pc = "Done"
    /\ createFailed # {}
    /\ \E c \in createdGroups : c.Name \in DOMAIN changes
    /\ \E call \in BagToSet(patchCalls) : call.name \in SnapshotNames

\* C19 (as claimed): the groups an identity is read to be in, and so every
\* group a removal is recorded for, are groups of the default organization in
\* the target-group snapshot; CreateGroup is called only for a group some
\* identity is to be added to.
C19_RemovalsInDefaultScope ==
    /\ \A id \in DOMAIN diffs : ToSet(diffs[id].actual) \subseteq SnapshotNames
    /\ \A g \in DOMAIN computed.changes :
          Removes(computed.changes, g) # {} => g \in SnapshotNames
    /\ \A g \in BagToSet(createCalls) : Adds(computed.changes, g) # {}

\* C19 holds of the deployments where every group is a group of the default
\* organization.
C19_DefaultOrgOnly ==
    (\A id \in DOMAIN tgroups : tgroups[id].OrganizationID = defaultOrg.ID)
        => C19_RemovalsInDefaultScope

\* The all-members group of the default organization, if the target has it:
\* the group whose ID is the organization's ID.
AllMembersGroups == { tgroups[id] : id \in { d \in DOMAIN tgroups : d = defaultOrg.ID } }

\* C20 (as claimed): no addition is recorded for the all-members group of the
\* default organization, CreateGroup is never called with the name
\* "Everyone", and for every eligible identity whose diff is taken its
\* all-members group name ("Everyone" when it is in no group whose ID is the
\* default organization's) is a key of neither an addition nor a removal.
C20_EveryoneNeverAdded ==
    /\ \A g \in AllMembersGroups : Adds(computed.changes, g.Name) \cup Adds(changes, g.Name) = {}
    /\ EveryoneLabel \notin BagToSet(createCalls)
    /\ \A u \in EligibleUsers :
          u.ID \in DOMAIN diffs =>
              /\ u.ID \notin Adds(changes, EveryoneName(u)) \cup Removes(changes, EveryoneName(u))
              /\ computed.done =>
                    u.ID \notin Adds(computed.changes, EveryoneName(u))
                                \cup Removes(computed.changes, EveryoneName(u))

\* C20 holds of the runs in which every eligible identity is in the
\* all-members group of the default organization from the start.
C20_MembersOnly ==
    (/\ \A u \in EligibleUsers : \E g \in MemberGroups(u) : g.ID = defaultOrg.ID
     /\ \A call \in BagToSet(patchCalls) : call.id # defaultOrg.ID)
        => C20_EveryoneNeverAdded

\* No element occurs twice in a list.
NoDuplicate(s) == Cardinality(ToSet(s)) = Len(s)

\* C21: for every key of the change set, as the per-user loop builds it, as it
\* stood when the loop ended and as it is sent in a patch, no identity occurs
\* twice in the add-list and none twice in the remove-list.
C21_DuplicatesCollapse ==
    /\ \A g \in DOMAIN changes :
          NoDuplicate(changes[g].AddUsers) /\ NoDuplicate(changes[g].RemoveUsers)
    /\ \A g \in DOMAIN computed.changes :
          /\ NoDuplicate(computed.changes[g].AddUsers)
          /\ NoDuplicate(computed.changes[g].RemoveUsers)
    /\ \A call \in BagToSet(patchCalls) :
          NoDuplicate(call.req.AddUsers) /\ NoDuplicate(call.req.RemoveUsers)

\* C21's case: the directory returns one group name twice for an identity,
\* the target returns another group name twice for it, and the loop has ended
\* with its addition to the one and its removal from the other.
C21_Witness ==
    /\ computed.done
    /\ Alice.ID \in DOMAIN diffs
    /\ ~NoDuplicate(google[Alice.Email])
    /\ ~NoDuplicate(diffs[Alice.ID].actual)
    /\ \E g \in DOMAIN computed.changes : Alice.ID \in Adds(computed.changes, g)
    /\ \E g \in DOMAIN computed.changes :
          /\ Alice.ID \in Removes(computed.changes, g)
          /\ Cardinality({ k \in 1..Len(diffs[Alice.ID].actual) :
                             diffs[Alice.ID].actual[k] = g }) = 2

\* C23: when the listing of the organizations, of the groups of the default
\* organization or of the users has failed, the run has failed: no source
\* groups and no target groups of an identity were fetched, no diff was
\* taken, and no CreateGroup and no PatchGroup was called.
C23_SetupErrorsAbort ==
    /\ setupError \in {"", "Organizations", "Groups", "Users"}
    /\ setupError # "" =>
          /\ pc = "Failed"
          /\ reads = {}
          /\ gGroups = <<>>
          /\ oidcUserCount = 0
          /\ DOMAIN diffs = {}
          /\ DOMAIN changes = {}
          /\ ~computed.done
          /\ NoMutationYet

\* C23's case: the listing of the users fails after the groups were listed,
\* with two eligible identities of which one is in a group the directory
\* does not name.
C23_Witness ==
    /\ setupError = "Users"
    /\ DOMAIN coderGroups # {}
    /\ Cardinality(EligibleUsers) = 2
    /\ \E u \in EligibleUsers : Actual(u) # Expected(u)

\* The token of the k-th page of the directory.
RECURSIVE TokenAt(_)
TokenAt(k) == IF k = 1 THEN "" ELSE pages[TokenAt(k - 1)].NextPageToken

\* The groups of the first k pages of the directory, in order.
RECURSIVE GroupsUpTo(_)
GroupsUpTo(k) ==
    IF k = 0 THEN <<>> ELSE GroupsUpTo(k - 1) \o pages[TokenAt(k)].Groups

\* The k-th page is the last one: it fails or carries no token.
EndsAt(k) == pages[TokenAt(k)].err \/ pages[TokenAt(k)].NextPageToken = ""

\* The directory returns an empty token, or an error, after finitely many
\* pages (a directory that does not within as many pages as it has tokens
\* goes round for ever).
ChainEnds == \E k \in 1..Cardinality(Tokens) : EndsAt(k)

\* GoogleGroups has returned.
Finished == listing \in {"Returned", "Failed"}

\* The calls made so far are for the first pages of the directory, each with
\* the token the page before it carried, and none after a last page; what is
\* returned is all their groups in order, or no group after an error.
PagesInOrder ==
    /\ \A k \in 1..Len(requests) :
          /\ requests[k] = TokenAt(k)
          /\ k < Len(requests) => ~EndsAt(k)
    /\ listing = "Call" =>
          /\ pageToken = TokenAt(Len(requests) + 1)
          /\ allGroups = GroupsUpTo(Len(requests))
          /\ Len(requests) > 0 => ~EndsAt(Len(requests))
    /\ listing = "Returned" =>
          /\ ~pages[requests[Len(requests)]].err
          /\ pages[requests[Len(requests)]].NextPageToken = ""
          /\ listed = GroupsUpTo(Len(requests))
    /\ listing = "Failed" =>
          /\ pages[requests[Len(requests)]].err
          /\ listed = <<>>

\* C22: GoogleGroups requests the pages of the directory in order, each with
\* the continuation token of the page before, until a page carries an empty
\* token, and then returns the groups of all these pages in order; when a
\* page request fails it returns no group; and it returns whenever the
\* directory comes to an empty token or an error.
C22_Pagination == []PagesInOrder /\ (ChainEnds ~> Finished)

\* C22's case: GoogleGroups has returned the groups of three pages, none of
\* them empty.
C22_Witness ==
    /\ listing = "Returned"
    /\ Len(requests) = 3
    /\ \A k \in 1..3 : pages[requests[k]].Groups # <<>>
    /\ Len(listed) >= 4

\* The identity an identifier text names is in the lookup.
InLookup(idStr) ==
    /\ ~ParseUUID(idStr).err
    /\ ParseUUID(idStr).id \in DOMAIN lookup

\* C24 (as claimed): UserIDsToNames returns a list as long as its input and in
\* its order, with the email of the identity where the identity is in the
\* lookup and the input identifier unchanged where it is not, a text that is
\* no uuid included.
C24_RawFallback ==
    naming = "Returned" =>
        /\ Len(nameList) = Len(idList)
        /\ \A k \in 1..Len(idList) :
              nameList[k] = IF InLookup(idList[k])
                                THEN lookup[ParseUUID(idList[k]).id].Email
                                ELSE idList[k]

\* The text of the zero uuid.
ZeroText == <<"0", "0">>

\* What holds of the code: where the identity is not in the lookup the name
\* is the input in lower case and without its braces when the input is a
\* uuid, and the text of the zero uuid when it is not.
C24_ParsedFallback ==
    naming = "Returned" =>
        /\ Len(nameList) = Len(idList)
        /\ \A k \in 1..Len(idList) :
              nameList[k] = IF InLookup(idList[k])
                                THEN lookup[ParseUUID(idList[k]).id].Email
                                ELSE IF ParseUUID(idList[k]).err
                                    THEN ZeroText
                                    ELSE ToLower(Digits(idList[k]))

====
